---- MODULE Spec2Model ----
(***************************************************************************)
(* Model of pkg/cgroups/apply_systemd.go: the systemd-backed cgroup        *)
(* application engine (useSystemd, systemdApply, systemdCgroup.Cleanup).   *)
(*                                                                         *)
(* Each caller p is a goroutine that runs Apply once for its own target    *)
(* process Pid(p) and then calls Cleanup on the handle it got.  Every call *)
(* that leaves the function (the manager over D-Bus, the mountpoint        *)
(* resolvers, the filesystem) is one step and may fail.  Paths, unit names *)
(* and file values are strings, built the way the code builds them.        *)
(***************************************************************************)
EXTENDS Integers, Sequences, FiniteSets, TLC

VARIABLES
    active,                 \* the callers that run in this behaviour
    c,                      \* c[p]: the *Cgroup spec caller p applies
    pc,                     \* pc[p]: the statement caller p is at
    loc,                    \* loc[p]: the locals of useSystemd / systemdApply
    ret,                    \* ret[p]: what Apply returned (ActiveCgroup, error)
    log,                    \* log[p]: the calls p made out of the package, in order
    sdBooted,               \* systemd.SdBooted()
    connLock,               \* the holder of connLock, 0 when free
    theConn,                \* 0 is nil, otherwise the connection's number
    hasStartTransientUnit,
    connCount,              \* how many connections systemd1.New() has opened
    units,                  \* the manager's units: unit name -> ControlGroup
    dirs,                   \* the cgroup directories that exist
    files,                  \* <<dir, file>> -> the value last written
    members,                \* <<dir, pid>>: pid is in dir's cgroup.procs
    made,                   \* made[p]: the directories p's MkdirAll calls created
    exited,                 \* the callers whose target process has exited
    cleanups,               \* cleanups[p]: the Cleanup calls p has made
    cleanupErr              \* cleanupErr[p]: what p's last Cleanup returned

vars == <<active, c, pc, loc, ret, log, sdBooted, connLock, theConn,
          hasStartTransientUnit, connCount, units, dirs, files, members, made,
          exited, cleanups, cleanupErr>>

(***************************************************************************)
(* Bounds                                                                  *)
(***************************************************************************)
\* how often a caller may call Cleanup on its handle
MaxCleanups == 2

Procs == {1, 2}

\* the target process of caller p
Pid(p) == 4000 + p

(***************************************************************************)
(* Strings and paths                                                       *)
(***************************************************************************)
HasSuffix(s, suffix) ==
    /\ Len(s) >= Len(suffix)
    /\ SubSeq(s, Len(s) - Len(suffix) + 1, Len(s)) = suffix

HasPrefix(s, prefix) ==
    /\ Len(s) >= Len(prefix)
    /\ SubSeq(s, 1, Len(prefix)) = prefix

\* repeated separators collapse into one
RECURSIVE Collapse(_)
Collapse(s) ==
    IF Len(s) <= 1 THEN s
    ELSE IF SubSeq(s, 1, 1) = "/" /\ SubSeq(s, 2, 2) = "/"
         THEN Collapse(SubSeq(s, 2, Len(s)))
    ELSE SubSeq(s, 1, 1) \o Collapse(SubSeq(s, 2, Len(s)))

\* filepath.Clean, for the paths that occur here: repeated separators
\* collapse and a trailing separator is dropped (no "." or ".." elements)
Clean(s) ==
    LET t == Collapse(s)
    IN  IF Len(t) > 1 /\ SubSeq(t, Len(t), Len(t)) = "/"
        THEN SubSeq(t, 1, Len(t) - 1)
        ELSE t

\* filepath.Join: the non-empty elements, separated by "/", cleaned
RECURSIVE JoinRaw(_)
JoinRaw(elems) ==
    IF elems = <<>> THEN ""
    ELSE IF Head(elems) = "" THEN JoinRaw(Tail(elems))
    ELSE LET rest == JoinRaw(Tail(elems))
         IN  IF rest = "" THEN Head(elems) ELSE Head(elems) \o "/" \o rest

Join(elems) == Clean(JoinRaw(elems))

\* filepath.Base: the last element of the path
RECURSIVE Base(_)
Base(s) ==
    IF s = "" THEN "."
    ELSE IF Len(s) > 1 /\ SubSeq(s, Len(s), Len(s)) = "/"
         THEN Base(SubSeq(s, 1, Len(s) - 1))
    ELSE LET i == CHOOSE k \in 0..Len(s) :
                      /\ (k = 0 \/ SubSeq(s, k, k) = "/")
                      /\ \A j \in (k + 1)..Len(s) : SubSeq(s, j, j) # "/"
         IN  IF i = Len(s) THEN "/" ELSE SubSeq(s, i + 1, Len(s))

\* strconv.FormatInt(n, 10) and strconv.Itoa(n), for the values that are
\* only compared and printed
FormatInt(n) == ToString(n)

(***************************************************************************)
(* int64: c.Memory is doubled at line 111, so it keeps its width.  A value *)
(* is a sign and a magnitude, the magnitude in three limbs of seven        *)
(* decimal digits, most significant first.                                 *)
(***************************************************************************)
Limb == 10000000

\* 2^63 and 2^64
TwoTo63 == <<92233, 7203685, 4775808>>

TwoTo64 == <<184467, 4407370, 9551616>>

\* 2^62, the least memory limit whose double does not fit
TwoTo62 == [neg |-> FALSE, mag |-> <<46116, 8601842, 7387904>>]

\* the int64 of a small integer
I64(n) ==
    LET a == IF n < 0 THEN -n ELSE n
    IN  [neg |-> n < 0, mag |-> <<0, a \div Limb, a % Limb>>]

MagLess(x, y) ==
    \/ x[1] < y[1]
    \/ x[1] = y[1] /\ x[2] < y[2]
    \/ x[1] = y[1] /\ x[2] = y[2] /\ x[3] < y[3]

MagDouble(m) ==
    LET l3 == 2 * m[3]
        l2 == 2 * m[2] + l3 \div Limb
        l1 == 2 * m[1] + l2 \div Limb
    IN  <<l1, l2 % Limb, l3 % Limb>>

\* x - y, for y not above x
MagSub(x, y) ==
    LET l3 == x[3] - y[3]
        b3 == IF l3 < 0 THEN 1 ELSE 0
        l2 == x[2] - y[2] - b3
        b2 == IF l2 < 0 THEN 1 ELSE 0
    IN  <<x[1] - y[1] - b2, l2 + b2 * Limb, l3 + b3 * Limb>>

\* the int64 that an integer of magnitude below 2^64 (or -2^64) wraps to
Wrap64(neg, mag) ==
    IF mag = <<0, 0, 0>> \/ mag = TwoTo64 THEN [neg |-> FALSE, mag |-> <<0, 0, 0>>]
    ELSE IF ~neg
    THEN IF MagLess(mag, TwoTo63) THEN [neg |-> FALSE, mag |-> mag]
         ELSE [neg |-> TRUE, mag |-> MagSub(TwoTo64, mag)]
    ELSE IF ~MagLess(TwoTo63, mag) THEN [neg |-> TRUE, mag |-> mag]
         ELSE [neg |-> FALSE, mag |-> MagSub(TwoTo64, mag)]

\* line 111: c.Memory * 2, in int64
Mul2(v) == Wrap64(v.neg, MagDouble(v.mag))

\* a limb as seven digits
Pad(n) == SubSeq("0000000", 1, 7 - Len(ToString(n))) \o ToString(n)

FormatMag(m) ==
    IF m[1] # 0 THEN ToString(m[1]) \o Pad(m[2]) \o Pad(m[3])
    ELSE IF m[2] # 0 THEN ToString(m[2]) \o Pad(m[3])
    ELSE ToString(m[3])

\* line 114: strconv.FormatInt(memorySwap, 10)
FormatInt64(v) == (IF v.neg THEN "-" ELSE "") \o FormatMag(v.mag)

\* line 203: uint64(c.Memory); the magnitude is the unsigned value
Uint64(v) ==
    IF v.neg THEN [neg |-> FALSE, mag |-> MagSub(TwoTo64, v.mag)] ELSE v

\* os.MkdirAll(path): path and every directory above it
MkdirAllDirs(path) ==
    {SubSeq(path, 1, k) : k \in {j \in 2..Len(path) :
                                   j = Len(path) \/ SubSeq(path, j + 1, j + 1) = "/"}}

\* d is path or lies below it
IsUnder(d, path) == d = path \/ HasPrefix(d, path \o "/")

Range(s) == {s[i] : i \in 1..Len(s)}

getIfaceForUnit(unitName) ==
    IF HasSuffix(unitName, ".scope") THEN "Scope"
    ELSE IF HasSuffix(unitName, ".service") THEN "Service"
    ELSE "Unit"

(***************************************************************************)
(* The environment the engine runs in                                      *)
(***************************************************************************)
\* GetThisCgroupDir("name=systemd"): the scope the engine itself runs in
ThisCgroupDir == "/user.slice/session-1.scope"

\* FindCgroupMountpoint(subsystem)
FindCgroupMountpoint(subsystem) == "/sys/fs/cgroup/" \o subsystem

\* GetInitCgroupDir(subsystem): the cgroup of pid 1
GetInitCgroupDir(subsystem) == "/"

\* the manager's ControlGroup of a transient unit started in a slice
ControlGroupOf(slice, unitName) == "/" \o slice \o "/" \o unitName

\* the controllers in which the manager realises a unit's cgroup
ManagedSubsystems == {"devices", "cpu", "memory"}

RootCpuset == Join(<<FindCgroupMountpoint("cpuset"), GetInitCgroupDir("cpuset")>>)

(***************************************************************************)
(* The plan systemdApply makes from the spec (lines 105-209)               *)
(***************************************************************************)
KeyValue(k, v) == [Key |-> k, Value |-> v]

Property(n, v) == [Name |-> n, Value |-> v]

\* a plan that takes every MemorySwap but a positive one for the default
memoryArgs_IgnoresDisable(cg) ==
    IF cg.Memory # I64(0) \/ cg.MemorySwap > 0
    THEN LET memorySwap == IF cg.MemorySwap <= 0 THEN Mul2(cg.Memory)
                           ELSE I64(cg.MemorySwap)
         IN  <<KeyValue("memory.memsw.limit_in_bytes", FormatInt64(memorySwap))>>
    ELSE <<>>

\* a plan that writes the swap limit only when the spec names one
memoryArgs_NoDefault(cg) ==
    IF cg.MemorySwap > 0
    THEN <<KeyValue("memory.memsw.limit_in_bytes", FormatInt(cg.MemorySwap))>>
    ELSE <<>>

\* a plan without manual cpu writes
cpuArgs_None(cg) == <<>>

\* lines 105-115: -1 disables the swap limit, 0 means twice the memory limit
memoryArgs(cg) ==
    IF cg.MemorySwap >= 0 /\ (cg.Memory # I64(0) \/ cg.MemorySwap > 0)
    THEN LET memorySwap == IF cg.MemorySwap = 0 THEN Mul2(cg.Memory)
                           ELSE I64(cg.MemorySwap)
         IN  <<KeyValue("memory.memsw.limit_in_bytes", FormatInt64(memorySwap))>>
    ELSE <<>>

cpuArgs(cg) ==
    IF cg.CpuQuota # 0
    THEN <<KeyValue("cpu.cfs_quota_us", FormatInt(cg.CpuQuota))>>
    ELSE <<>>

cpusetArgs(cg) ==
    (IF cg.CpusetCpus # "" THEN <<KeyValue("cpuset.cpus", cg.CpusetCpus)>> ELSE <<>>)
    \o (IF cg.CpusetMems # "" THEN <<KeyValue("cpuset.mems", cg.CpusetMems)>> ELSE <<>>)

sliceOf(cg) == IF cg.Slice # "" THEN cg.Slice ELSE "system.slice"

RestrictDevices_Always(cg) == TRUE

\* lines 140 and 232: if !c.DeviceAccess
RestrictDevices(cg) == ~cg.DeviceAccess

\* the allow-list without the pts multiplexer
DeviceAllowList_Nine ==
    << <<"/dev/null", "rwm">>, <<"/dev/zero", "rwm">>, <<"/dev/full", "rwm">>,
       <<"/dev/random", "rwm">>, <<"/dev/urandom", "rwm">>, <<"/dev/tty", "rwm">>,
       <<"/dev/console", "rwm">>, <<"/dev/tty0", "rwm">>, <<"/dev/tty1", "rwm">> >>

\* the DeviceAllow unit property of a new scope
DeviceAllowList ==
    << <<"/dev/null", "rwm">>, <<"/dev/zero", "rwm">>, <<"/dev/full", "rwm">>,
       <<"/dev/random", "rwm">>, <<"/dev/urandom", "rwm">>, <<"/dev/tty", "rwm">>,
       <<"/dev/console", "rwm">>, <<"/dev/tty0", "rwm">>, <<"/dev/tty1", "rwm">>,
       <<"/dev/pts/ptmx", "rwm">> >>

\* the devices.allow rules a foreground apply writes itself
ForegroundDevices ==
    <<"c *:* m", "b *:* m",
      "c 1:3 rwm", "c 1:5 rwm", "c 1:7 rwm",
      "c 5:1 rwm", "c 5:0 rwm", "c 4:0 rwm", "c 4:1 rwm", "c 5:2 rwm",
      "c 1:9 rwm", "c 1:8 rwm">>

\* /dev/pts/* and tuntap, written by hand in both modes
SharedDevices == <<"c 136:* rwm", "c 10:200 rwm">>

\* the shared entries appended before the mode's own rules
devices_SharedFirst(cg, foreground) ==
    IF ~cg.DeviceAccess
    THEN SharedDevices \o (IF foreground THEN ForegroundDevices ELSE <<>>)
    ELSE <<>>

\* lines 140-187: the rules written into devices.allow
devices(cg, foreground) ==
    IF RestrictDevices(cg)
    THEN (IF foreground THEN ForegroundDevices ELSE <<>>) \o SharedDevices
    ELSE <<>>

\* a plan that describes the container in both modes and nothing else
properties_Described(cg, foreground, pid) ==
    <<Property("Description", "docker container " \o cg.Name)>>

\* uint32(pid) and uint64(c.CpuShares) keep the value: the model's pids and
\* shares are never negative; uint64(c.Memory) is Uint64
properties(cg, foreground, pid) ==
    (IF ~foreground
     THEN <<Property("Slice", sliceOf(cg)),
            Property("Description", "docker container " \o cg.Name),
            Property("PIDs", <<pid>>)>>
     ELSE <<>>)
    \o (IF RestrictDevices(cg) /\ ~foreground
        THEN <<Property("DevicePolicy", "strict"),
               Property("DeviceAllow", DeviceAllowList)>>
        ELSE <<>>)
    \o (IF cg.MemoryAccounting \/ Len(memoryArgs(cg)) # 0
        THEN <<Property("MemoryAccounting", TRUE)>> ELSE <<>>)
    \o (IF cg.CpuAccounting \/ Len(cpuArgs(cg)) # 0
        THEN <<Property("CPUAccounting", TRUE)>> ELSE <<>>)
    \o (IF cg.Memory # I64(0)
        THEN <<Property("MemoryLimit", Uint64(cg.Memory))>> ELSE <<>>)
    \o (IF cg.CpuShares # 0 THEN <<Property("CPUShares", cg.CpuShares)>> ELSE <<>>)

PropNames(props) == {props[i].Name : i \in 1..Len(props)}

(***************************************************************************)
(* Initial state                                                           *)
(***************************************************************************)
NoLocals ==
    [useRet |-> FALSE, unitName |-> "", foreground |-> FALSE, cgroup |-> "",
     mountpoint |-> "", initPath |-> "", rootPath |-> "", path |-> "",
     cleanupDirs |-> <<>>, i |-> 1, foundCpus |-> FALSE, foundMems |-> FALSE]

NoReturn == [returned |-> FALSE, handle |-> FALSE, cleanupDirs |-> <<>>, err |-> ""]

\* every spec of one caller: each knob unset and set; the memory limit
\* whose double does not fit is tried with the default swap limit and with
\* the knobs the memory plan does not read unset
AllSpecs ==
    {cg \in [Name : {"c1"}, Parent : {"docker"}, Slice : {"", "machine.slice"},
             Memory : {I64(0), I64(100000000), TwoTo62},
             MemorySwap : {-1, 0, 300000000},
             CpuShares : {0, 512}, CpuQuota : {0, 50000},
             CpusetCpus : {"", "0-1"}, CpusetMems : {"", "0"},
             DeviceAccess : BOOLEAN, MemoryAccounting : BOOLEAN,
             CpuAccounting : BOOLEAN, Foreground : BOOLEAN] :
        cg.Memory = TwoTo62 =>
            /\ cg.MemorySwap = 0 /\ cg.Slice = ""
            /\ cg.CpuShares = 0 /\ cg.CpuQuota = 0
            /\ cg.CpusetCpus = "" /\ cg.CpusetMems = ""}

\* the specs of callers that run side by side: the knobs that decide which
\* units and directories an apply touches; a spec either leaves the device
\* rules to the apply or sets the cpu, memory and cpuset knobs by hand
ConcSpecs ==
    {cg \in [Name : {"c1", "c2"}, Parent : {"docker"}, Slice : {""},
             Memory : {I64(0)}, MemorySwap : {-1, 300000000},
             CpuShares : {0}, CpuQuota : {0, 50000},
             CpusetCpus : {"", "0-1"}, CpusetMems : {""},
             DeviceAccess : BOOLEAN, MemoryAccounting : {FALSE},
             CpuAccounting : {FALSE}, Foreground : BOOLEAN] :
        /\ (cg.CpuQuota # 0) = (cg.CpusetCpus # "")
        /\ (cg.CpuQuota # 0) = (cg.MemorySwap # -1)
        /\ (cg.CpuQuota # 0) = cg.DeviceAccess}

\* the cgroup directories before any apply: the root of every hierarchy and
\* the cgroup of the engine's own unit
InitDirs ==
    UNION {MkdirAllDirs(d) :
             d \in {RootCpuset}
                   \cup {Join(<<FindCgroupMountpoint(s), ThisCgroupDir>>) :
                            s \in ManagedSubsystems}}

InitEnv ==
    /\ pc = [p \in Procs |-> "Start"]
    /\ loc = [p \in Procs |-> NoLocals]
    /\ ret = [p \in Procs |-> NoReturn]
    /\ log = [p \in Procs |-> <<>>]
    /\ sdBooted \in BOOLEAN
    /\ connLock = 0
    /\ theConn = 0
    /\ hasStartTransientUnit = FALSE
    /\ connCount = 0
    /\ units = (Base(ThisCgroupDir) :> ThisCgroupDir)
    /\ dirs = InitDirs
    /\ files = (<<RootCpuset, "cpuset.cpus">> :> "0-3")
               @@ (<<RootCpuset, "cpuset.mems">> :> "0")
    /\ members = {}
    /\ made = [p \in Procs |-> {}]
    /\ exited = {}
    /\ cleanups = [p \in Procs |-> 0]
    /\ cleanupErr = [p \in Procs |-> "nil"]

\* one caller, every spec
Init ==
    /\ active = {1}
    /\ \E cg \in AllSpecs : c = [p \in Procs |-> cg]
    /\ InitEnv

\* two callers side by side
InitConc ==
    /\ active = Procs
    /\ c \in [Procs -> ConcSpecs]
    /\ c[1].Name = "c1"
    /\ InitEnv

(***************************************************************************)
(* Steps shared by the actions                                             *)
(***************************************************************************)
Goto(p, label) == pc' = [pc EXCEPT ![p] = label]

At(p, label) == p \in active /\ pc[p] = label

connVars == <<connLock, theConn, hasStartTransientUnit, connCount>>

fsVars == <<dirs, files, members>>

envVars == <<active, c, sdBooted, made, exited, cleanups, cleanupErr>>

\* an error return that still hands out what was built so far
ReturnError_WithHandle(p, e) ==
    /\ ret' = [ret EXCEPT ![p] = [returned |-> TRUE, handle |-> TRUE,
                                  cleanupDirs |-> loc[p].cleanupDirs, err |-> e]]
    /\ Goto(p, "Done")

\* return nil, err
ReturnError(p, e) ==
    /\ ret' = [ret EXCEPT ![p] = [returned |-> TRUE, handle |-> FALSE,
                                  cleanupDirs |-> <<>>, err |-> e]]
    /\ Goto(p, "Done")

\* one call out of the package: a writeFile(a, b, v), a resolver or
\* filesystem call op(a); ok is err == nil
Entry(op, a, b, v, ok) ==
    [op |-> op, a |-> a, b |-> b, v |-> v, props |-> <<>>, ok |-> ok]

\* a manager call op(unitName, mode, properties...)
Call(op, unitName, mode, props, ok) ==
    [op |-> op, a |-> unitName, b |-> mode, v |-> "", props |-> props, ok |-> ok]

Log(p, entries) == log' = [log EXCEPT ![p] = @ \o entries]

(***************************************************************************)
(* Apply: the entry point that chooses the systemd implementation          *)
(***************************************************************************)
Apply(p) ==
    /\ At(p, "Start")
    /\ Goto(p, "SdBooted")
    /\ UNCHANGED <<loc, ret, log, units>>
    /\ UNCHANGED <<connVars, fsVars, envVars>>

\* the probe said no: a capability error, and systemdApply is not entered
ApplyDispatch(p) ==
    /\ At(p, "Dispatch")
    /\ IF loc[p].useRet
       THEN Goto(p, "systemdApply") /\ UNCHANGED ret
       ELSE ReturnError(p, "systemd not available")
    /\ UNCHANGED <<loc, log, units>>
    /\ UNCHANGED <<connVars, fsVars, envVars>>

(***************************************************************************)
(* useSystemd (lines 27-56)                                                *)
(***************************************************************************)
\* line 28: if !systemd.SdBooted() { return false }
SdBooted(p) ==
    /\ At(p, "SdBooted")
    /\ IF ~sdBooted
       THEN /\ loc' = [loc EXCEPT ![p].useRet = FALSE]
            /\ Goto(p, "Dispatch")
       ELSE /\ Goto(p, "Lock")
            /\ UNCHANGED loc
    /\ UNCHANGED <<ret, log, units>>
    /\ UNCHANGED <<connVars, fsVars, envVars>>

LockFree_Always(p) == TRUE

\* connLock is free for caller p to take
LockFree(p) == connLock = 0

\* line 32: connLock.Lock()
Lock(p) ==
    /\ At(p, "Lock")
    /\ LockFree(p)
    /\ connLock' = p
    /\ Goto(p, "CheckConn")
    /\ UNCHANGED <<loc, ret, log, units>>
    /\ UNCHANGED <<theConn, hasStartTransientUnit, connCount, fsVars, envVars>>

\* line 35: if theConn == nil
CheckConn(p) ==
    /\ At(p, "CheckConn")
    /\ IF theConn = 0 THEN Goto(p, "NewConn") ELSE Goto(p, "ReadFlag")
    /\ UNCHANGED <<loc, ret, log, units>>
    /\ UNCHANGED <<connVars, fsVars, envVars>>

\* lines 37-40: theConn, err = systemd1.New()
NewConn(p) ==
    /\ At(p, "NewConn")
    /\ \E ok \in BOOLEAN :
         /\ Log(p, <<Entry("systemd1.New", "", "", "", ok)>>)
         /\ IF ok
            THEN /\ theConn' = connCount + 1
                 /\ connCount' = connCount + 1
                 /\ Goto(p, "Assume")
                 /\ UNCHANGED loc
            ELSE /\ theConn' = 0
                 /\ loc' = [loc EXCEPT ![p].useRet = FALSE]
                 /\ Goto(p, "Unlock")
                 /\ UNCHANGED connCount
    /\ UNCHANGED <<ret, units>>
    /\ UNCHANGED <<connLock, hasStartTransientUnit, fsVars, envVars>>

\* line 43: hasStartTransientUnit = true
Assume(p) ==
    /\ At(p, "Assume")
    /\ hasStartTransientUnit' = TRUE
    /\ Goto(p, "Probe")
    /\ UNCHANGED <<loc, ret, log, units>>
    /\ UNCHANGED <<connLock, theConn, connCount, fsVars, envVars>>

\* what the manager may answer to the invalid call: the bus error that names
\* the method unknown, or an error that does not (any other bus error and
\* any error that is no bus error take the same path through lines 46-52)
ProbeAnswers == {"InvalidArgs", "UnknownMethod"}

UnknownMethod_Missed(answer) == FALSE

\* lines 47-48: the error is a dbus.Error named ...DBus.Error.UnknownMethod
UnknownMethod(answer) == answer = "UnknownMethod"

\* lines 46-52: theConn.StartTransientUnit("test.scope", "invalid"); the
\* history keeps the manager's answer as the value of the call
Probe(p) ==
    /\ At(p, "Probe")
    /\ \E answer \in ProbeAnswers :
         /\ Log(p, <<[Call("StartTransientUnit", "test.scope", "invalid", <<>>, FALSE)
                          EXCEPT !.v = answer]>>)
         /\ hasStartTransientUnit' =
                IF UnknownMethod(answer) THEN FALSE ELSE hasStartTransientUnit
    /\ Goto(p, "ReadFlag")
    /\ UNCHANGED <<loc, ret, units>>
    /\ UNCHANGED <<connLock, theConn, connCount, fsVars, envVars>>

\* line 55: return hasStartTransientUnit
ReadFlag(p) ==
    /\ At(p, "ReadFlag")
    /\ loc' = [loc EXCEPT ![p].useRet = hasStartTransientUnit]
    /\ Goto(p, "Unlock")
    /\ UNCHANGED <<ret, log, units>>
    /\ UNCHANGED <<connVars, fsVars, envVars>>

\* line 33: defer connLock.Unlock()
Unlock(p) ==
    /\ At(p, "Unlock")
    /\ connLock' = IF connLock = p THEN 0 ELSE connLock
    /\ Goto(p, "Dispatch")
    /\ UNCHANGED <<loc, ret, log, units>>
    /\ UNCHANGED <<theConn, hasStartTransientUnit, connCount, fsVars, envVars>>

(***************************************************************************)
(* The manager and the filesystem, as systemdApply sees them               *)
(***************************************************************************)
Put(f, k, v) == [x \in DOMAIN f \cup {k} |-> IF x = k THEN v ELSE f[x]]

\* the value of property name in props, or def when props has none
PropValue(props, name, def) ==
    IF \E i \in 1..Len(props) : props[i].Name = name
    THEN props[CHOOSE i \in 1..Len(props) : props[i].Name = name].Value
    ELSE def

\* the cgroup directories the manager makes for a unit
UnitDirs(cgroup) ==
    {Join(<<FindCgroupMountpoint(s), cgroup>>) : s \in ManagedSubsystems}

\* the errors os.MkdirAll may return for path
MkdirErrors(path) ==
    {"nil", "EACCES"} \cup (IF path \in dirs THEN {"EEXIST"} ELSE {})

\* err != nil && !os.IsExist(err)
MkdirFailed(err) == err # "nil" /\ err # "EEXIST"

\* the outcomes of a write into dir: it cannot succeed in a missing directory
WriteOutcomes(dir) == IF dir \in dirs THEN BOOLEAN ELSE {FALSE}

\* writeFile(dir, file, value)
writeFile(p, dir, file, value, ok) ==
    /\ Log(p, <<Entry("writeFile", dir, file, value, ok)>>)
    /\ files' = IF ok THEN Put(files, <<dir, file>>, value) ELSE files
    /\ members' = IF ok /\ file = "cgroup.procs"
                  THEN members \cup {<<dir, value>>} ELSE members
    /\ UNCHANGED dirs

(***************************************************************************)
(* systemdApply (lines 78-372)                                             *)
(***************************************************************************)
unitNameOf_NoName(cg) == cg.Parent \o ".scope"

\* line 79
unitNameOf(cg) == cg.Parent \o "-" \o cg.Name \o ".scope"

\* line 249
devicesPath(mountpoint, initPath, cg) == Join(<<mountpoint, initPath, cg.Parent, cg.Name>>)

\* the cpuset directory nested like the devices one
cpusetPath_Nested(mountpoint, initPath, cg) ==
    Join(<<mountpoint, initPath, cg.Parent, cg.Name>>)

\* line 319
cpusetPath(mountpoint, initPath, cg) ==
    Join(<<mountpoint, initPath, cg.Parent \o "-" \o cg.Name>>)

\* a unit call whose error is dropped
UnitCallFailed_Ignored(ok) == FALSE

\* lines 213 and 218: if err := theConn.<unit call>; err != nil
UnitCallFailed(ok) == ~ok

QueryFailed_Ignored(ok) == FALSE

\* line 226: if err != nil after the property query
QueryFailed(ok) == ~ok

\* a writeFile whose error is dropped
WriteFailed_Ignored(ok) == FALSE

\* if err := writeFile(...); err != nil
WriteFailed(ok) == ~ok

\* lines 79-103: the unit name, and in foreground mode the caller's own unit
Prepare(p) ==
    /\ At(p, "systemdApply")
    /\ IF c[p].Foreground
       THEN \E ok \in BOOLEAN :
              /\ Log(p, <<Entry("GetThisCgroupDir", "name=systemd", "", "", ok)>>)
              /\ IF ok
                 THEN /\ loc' = [loc EXCEPT ![p].foreground = TRUE,
                                            ![p].unitName = Base(ThisCgroupDir)]
                      /\ Goto(p, "UnitCall")
                      /\ UNCHANGED ret
                 ELSE /\ ReturnError(p, "GetThisCgroupDir")
                      /\ UNCHANGED loc
       ELSE /\ loc' = [loc EXCEPT ![p].foreground = FALSE,
                                  ![p].unitName = unitNameOf(c[p])]
            /\ Goto(p, "UnitCall")
            /\ UNCHANGED <<ret, log>>
    /\ UNCHANGED units
    /\ UNCHANGED <<connVars, fsVars, envVars>>

\* lines 212-216: theConn.SetUnitProperties(unitName, true, properties...)
SetUnitProperties(p) ==
    /\ At(p, "UnitCall")
    /\ loc[p].foreground
    /\ LET props == properties(c[p], loc[p].foreground, Pid(p))
       IN  IF Len(props) > 0
           THEN \E ok \in BOOLEAN :
                  /\ Log(p, <<Call("SetUnitProperties", loc[p].unitName, "runtime",
                                     props, ok)>>)
                  /\ IF UnitCallFailed(ok)
                     THEN ReturnError(p, "SetUnitProperties")
                     ELSE Goto(p, "GetProps") /\ UNCHANGED ret
           ELSE /\ Goto(p, "GetProps")
                /\ UNCHANGED <<log, ret>>
    /\ UNCHANGED <<loc, units>>
    /\ UNCHANGED <<connVars, fsVars, envVars>>

\* lines 218-220: theConn.StartTransientUnit(unitName, "replace", properties...)
StartTransientUnit(p) ==
    /\ At(p, "UnitCall")
    /\ ~loc[p].foreground
    /\ LET props == properties(c[p], loc[p].foreground, Pid(p))
           cgroup == ControlGroupOf(PropValue(props, "Slice", "system.slice"),
                                    loc[p].unitName)
       IN  \E ok \in BOOLEAN :
             /\ Log(p, <<Call("StartTransientUnit", loc[p].unitName, "replace",
                                props, ok)>>)
             /\ IF ok
                THEN /\ units' = Put(units, loc[p].unitName, cgroup)
                     /\ dirs' = dirs \cup UnitDirs(cgroup)
                     /\ members' = members \cup
                            {<<d, FormatInt(Pid(p))>> : d \in UnitDirs(cgroup)}
                ELSE UNCHANGED <<units, dirs, members>>
             /\ IF UnitCallFailed(ok)
                THEN ReturnError(p, "StartTransientUnit")
                ELSE Goto(p, "GetProps") /\ UNCHANGED ret
    /\ UNCHANGED <<loc, files>>
    /\ UNCHANGED <<connVars, envVars>>

\* lines 225-230: theConn.GetUnitTypeProperties(unitName, getIfaceForUnit(unitName))
GetUnitTypeProperties(p) ==
    /\ At(p, "GetProps")
    /\ \E ok \in (IF loc[p].unitName \in DOMAIN units THEN BOOLEAN ELSE {FALSE}) :
         /\ Log(p, <<Call("GetUnitTypeProperties", loc[p].unitName,
                            getIfaceForUnit(loc[p].unitName), <<>>, ok)>>)
         /\ IF QueryFailed(ok)
            THEN ReturnError(p, "GetUnitTypeProperties") /\ UNCHANGED loc
            ELSE /\ loc' = [loc EXCEPT ![p].cgroup = units[loc[p].unitName]]
                 /\ Goto(p, IF RestrictDevices(c[p]) THEN "DevMount" ELSE "CpuMount")
                 /\ UNCHANGED ret
    /\ UNCHANGED units
    /\ UNCHANGED <<connVars, fsVars, envVars>>

\* lines 233-238: FindCgroupMountpoint("devices")
DevMount(p) ==
    /\ At(p, "DevMount")
    /\ \E ok \in BOOLEAN :
         /\ Log(p, <<Entry("FindCgroupMountpoint", "devices", "", "", ok)>>)
         /\ IF ok
            THEN /\ loc' = [loc EXCEPT
                       ![p].mountpoint = FindCgroupMountpoint("devices"),
                       ![p].path = Join(<<FindCgroupMountpoint("devices"), loc[p].cgroup>>),
                       ![p].i = 1]
                 /\ Goto(p, IF loc[p].foreground THEN "DevInit" ELSE "DevAllow")
                 /\ UNCHANGED ret
            ELSE ReturnError(p, "FindCgroupMountpoint") /\ UNCHANGED loc
    /\ UNCHANGED units
    /\ UNCHANGED <<connVars, fsVars, envVars>>

\* lines 244-251: GetInitCgroupDir("devices"); the directory is owned from here on
DevInit(p) ==
    /\ At(p, "DevInit")
    /\ \E ok \in BOOLEAN :
         /\ Log(p, <<Entry("GetInitCgroupDir", "devices", "", "", ok)>>)
         /\ IF ok
            THEN LET path == devicesPath(loc[p].mountpoint, GetInitCgroupDir("devices"), c[p])
                 IN  /\ loc' = [loc EXCEPT
                           ![p].initPath = GetInitCgroupDir("devices"),
                           ![p].path = path,
                           ![p].cleanupDirs = Append(@, path)]
                     /\ Goto(p, "DevMkdir")
                     /\ UNCHANGED ret
            ELSE ReturnError(p, "GetInitCgroupDir") /\ UNCHANGED loc
    /\ UNCHANGED units
    /\ UNCHANGED <<connVars, fsVars, envVars>>

\* lines 253-255: os.MkdirAll(path, 0755)
DevMkdir(p) ==
    /\ At(p, "DevMkdir")
    /\ \E err \in MkdirErrors(loc[p].path) :
         /\ Log(p, <<Entry("MkdirAll", loc[p].path, "", "", ~MkdirFailed(err))>>)
         /\ dirs' = IF err = "nil" THEN dirs \cup MkdirAllDirs(loc[p].path) ELSE dirs
         /\ made' = IF err = "nil"
                    THEN [made EXCEPT ![p] = @ \cup (MkdirAllDirs(loc[p].path) \ dirs)]
                    ELSE made
         /\ IF MkdirFailed(err)
            THEN ReturnError(p, "MkdirAll")
            ELSE Goto(p, "DevProcs") /\ UNCHANGED ret
    /\ UNCHANGED <<loc, units, files, members>>
    /\ UNCHANGED <<connVars, active, c, sdBooted, exited, cleanups, cleanupErr>>

\* lines 257-259: writeFile(path, "cgroup.procs", strconv.Itoa(pid))
DevProcs(p) ==
    /\ At(p, "DevProcs")
    /\ \E ok \in WriteOutcomes(loc[p].path) :
         /\ writeFile(p, loc[p].path, "cgroup.procs", FormatInt(Pid(p)), ok)
         /\ IF WriteFailed(ok)
            THEN ReturnError(p, "writeFile")
            ELSE Goto(p, "DevDeny") /\ UNCHANGED ret
    /\ UNCHANGED <<loc, units>>
    /\ UNCHANGED <<connVars, envVars>>

\* line 261 names dir, which systemdApply never declares: the directory it
\* stands for is any directory the function could mean at this point
AmbientDirs(p) ==
    {loc[p].path,
     Join(<<loc[p].mountpoint, loc[p].cgroup>>),
     Join(<<loc[p].mountpoint, loc[p].initPath>>)}

\* lines 261-263: writeFile(dir, "devices.deny", "a"); on failure, return err
DevDeny(p) ==
    /\ At(p, "DevDeny")
    /\ \E dir \in AmbientDirs(p) :
         \E ok \in WriteOutcomes(dir) :
           /\ writeFile(p, dir, "devices.deny", "a", ok)
           /\ IF WriteFailed(ok)
              THEN ReturnError(p, "writeFile")
              ELSE Goto(p, "DevAllow") /\ UNCHANGED ret
    /\ UNCHANGED <<loc, units>>
    /\ UNCHANGED <<connVars, envVars>>

\* lines 266-270: for _, dev := range devices
DevAllow(p) ==
    /\ At(p, "DevAllow")
    /\ LET devs == devices(c[p], loc[p].foreground)
       IN  IF loc[p].i <= Len(devs)
           THEN \E ok \in WriteOutcomes(loc[p].path) :
                  /\ writeFile(p, loc[p].path, "devices.allow", devs[loc[p].i], ok)
                  /\ IF WriteFailed(ok)
                     THEN ReturnError(p, "writeFile") /\ UNCHANGED loc
                     ELSE /\ loc' = [loc EXCEPT ![p].i = @ + 1]
                          /\ UNCHANGED <<pc, ret>>
           ELSE /\ Goto(p, "CpuMount")
                /\ UNCHANGED <<loc, ret, log, fsVars>>
    /\ UNCHANGED units
    /\ UNCHANGED <<connVars, envVars>>

\* lines 273-279: if len(cpuArgs) != 0 { FindCgroupMountpoint("cpu") }
CpuMount(p) ==
    /\ At(p, "CpuMount")
    /\ IF Len(cpuArgs(c[p])) # 0
       THEN \E ok \in BOOLEAN :
              /\ Log(p, <<Entry("FindCgroupMountpoint", "cpu", "", "", ok)>>)
              /\ IF ok
                 THEN /\ loc' = [loc EXCEPT
                            ![p].mountpoint = FindCgroupMountpoint("cpu"),
                            ![p].path = Join(<<FindCgroupMountpoint("cpu"), loc[p].cgroup>>),
                            ![p].i = 1]
                      /\ Goto(p, "CpuWrite")
                      /\ UNCHANGED ret
                 ELSE ReturnError(p, "FindCgroupMountpoint") /\ UNCHANGED loc
       ELSE /\ Goto(p, "MemMount")
            /\ UNCHANGED <<loc, ret, log>>
    /\ UNCHANGED units
    /\ UNCHANGED <<connVars, fsVars, envVars>>

\* lines 281-285: for _, kv := range cpuArgs
CpuWrite(p) ==
    /\ At(p, "CpuWrite")
    /\ LET args == cpuArgs(c[p])
       IN  IF loc[p].i <= Len(args)
           THEN \E ok \in WriteOutcomes(loc[p].path) :
                  /\ writeFile(p, loc[p].path, args[loc[p].i].Key, args[loc[p].i].Value, ok)
                  /\ IF WriteFailed(ok)
                     THEN ReturnError(p, "writeFile") /\ UNCHANGED loc
                     ELSE /\ loc' = [loc EXCEPT ![p].i = @ + 1]
                          /\ UNCHANGED <<pc, ret>>
           ELSE /\ Goto(p, "MemMount")
                /\ UNCHANGED <<loc, ret, log, fsVars>>
    /\ UNCHANGED units
    /\ UNCHANGED <<connVars, envVars>>

\* lines 288-294: if len(memoryArgs) != 0 { FindCgroupMountpoint("memory") }
MemMount(p) ==
    /\ At(p, "MemMount")
    /\ IF Len(memoryArgs(c[p])) # 0
       THEN \E ok \in BOOLEAN :
              /\ Log(p, <<Entry("FindCgroupMountpoint", "memory", "", "", ok)>>)
              /\ IF ok
                 THEN /\ loc' = [loc EXCEPT
                            ![p].mountpoint = FindCgroupMountpoint("memory"),
                            ![p].path = Join(<<FindCgroupMountpoint("memory"), loc[p].cgroup>>),
                            ![p].i = 1]
                      /\ Goto(p, "MemWrite")
                      /\ UNCHANGED ret
                 ELSE ReturnError(p, "FindCgroupMountpoint") /\ UNCHANGED loc
       ELSE /\ Goto(p, "CpusetMount")
            /\ UNCHANGED <<loc, ret, log>>
    /\ UNCHANGED units
    /\ UNCHANGED <<connVars, fsVars, envVars>>

\* lines 296-300: for _, kv := range memoryArgs
MemWrite(p) ==
    /\ At(p, "MemWrite")
    /\ LET args == memoryArgs(c[p])
       IN  IF loc[p].i <= Len(args)
           THEN \E ok \in WriteOutcomes(loc[p].path) :
                  /\ writeFile(p, loc[p].path, args[loc[p].i].Key, args[loc[p].i].Value, ok)
                  /\ IF WriteFailed(ok)
                     THEN ReturnError(p, "writeFile") /\ UNCHANGED loc
                     ELSE /\ loc' = [loc EXCEPT ![p].i = @ + 1]
                          /\ UNCHANGED <<pc, ret>>
           ELSE /\ Goto(p, "CpusetMount")
                /\ UNCHANGED <<loc, ret, log, fsVars>>
    /\ UNCHANGED units
    /\ UNCHANGED <<connVars, envVars>>

\* lines 303-311: if len(cpusetArgs) != 0 { FindCgroupMountpoint("cpuset") }
CpusetMount(p) ==
    /\ At(p, "CpusetMount")
    /\ IF Len(cpusetArgs(c[p])) # 0
       THEN \E ok \in BOOLEAN :
              /\ Log(p, <<Entry("FindCgroupMountpoint", "cpuset", "", "", ok)>>)
              /\ IF ok
                 THEN /\ loc' = [loc EXCEPT
                            ![p].mountpoint = FindCgroupMountpoint("cpuset")]
                      /\ Goto(p, "CpusetInit")
                      /\ UNCHANGED ret
                 ELSE ReturnError(p, "FindCgroupMountpoint") /\ UNCHANGED loc
       ELSE /\ Goto(p, "Return")
            /\ UNCHANGED <<loc, ret, log>>
    /\ UNCHANGED units
    /\ UNCHANGED <<connVars, fsVars, envVars>>

\* lines 312-321: GetInitCgroupDir("cpuset"); the directory is owned from here on
CpusetInit(p) ==
    /\ At(p, "CpusetInit")
    /\ \E ok \in BOOLEAN :
         /\ Log(p, <<Entry("GetInitCgroupDir", "cpuset", "", "", ok)>>)
         /\ IF ok
            THEN LET initPath == GetInitCgroupDir("cpuset")
                     path == cpusetPath(loc[p].mountpoint, initPath, c[p])
                 IN  /\ loc' = [loc EXCEPT
                           ![p].initPath = initPath,
                           ![p].rootPath = Join(<<loc[p].mountpoint, initPath>>),
                           ![p].path = path,
                           ![p].cleanupDirs = Append(@, path)]
                     /\ Goto(p, "CpusetMkdir")
                     /\ UNCHANGED ret
            ELSE ReturnError(p, "GetInitCgroupDir") /\ UNCHANGED loc
    /\ UNCHANGED units
    /\ UNCHANGED <<connVars, fsVars, envVars>>

\* lines 323-328: os.MkdirAll(path, 0755)
CpusetMkdir(p) ==
    /\ At(p, "CpusetMkdir")
    /\ \E err \in MkdirErrors(loc[p].path) :
         /\ Log(p, <<Entry("MkdirAll", loc[p].path, "", "", ~MkdirFailed(err))>>)
         /\ dirs' = IF err = "nil" THEN dirs \cup MkdirAllDirs(loc[p].path) ELSE dirs
         /\ made' = IF err = "nil"
                    THEN [made EXCEPT ![p] = @ \cup (MkdirAllDirs(loc[p].path) \ dirs)]
                    ELSE made
         /\ IF MkdirFailed(err)
            THEN ReturnError(p, "MkdirAll") /\ UNCHANGED loc
            ELSE /\ loc' = [loc EXCEPT ![p].foundCpus = FALSE,
                                       ![p].foundMems = FALSE, ![p].i = 1]
                 /\ Goto(p, "CpusetWrite")
                 /\ UNCHANGED ret
    /\ UNCHANGED <<units, files, members>>
    /\ UNCHANGED <<connVars, active, c, sdBooted, exited, cleanups, cleanupErr>>

\* lines 330-340: for _, kv := range cpusetArgs
CpusetWrite(p) ==
    /\ At(p, "CpusetWrite")
    /\ LET args == cpusetArgs(c[p])
       IN  IF loc[p].i <= Len(args)
           THEN LET kv == args[loc[p].i]
                IN  \E ok \in WriteOutcomes(loc[p].path) :
                      /\ writeFile(p, loc[p].path, kv.Key, kv.Value, ok)
                      /\ loc' = [loc EXCEPT
                            ![p].foundCpus = @ \/ kv.Key = "cpuset.cpus",
                            ![p].foundMems = @ \/ kv.Key = "cpuset.mems",
                            ![p].i = IF WriteFailed(ok) THEN @ ELSE @ + 1]
                      /\ IF WriteFailed(ok)
                         THEN ReturnError(p, "writeFile")
                         ELSE UNCHANGED <<pc, ret>>
           ELSE /\ Goto(p, "InheritCpus")
                /\ UNCHANGED <<loc, ret, log, fsVars>>
    /\ UNCHANGED units
    /\ UNCHANGED <<connVars, envVars>>

\* ioutil.ReadFile(filepath.Join(dir, file)): it cannot succeed on a missing file
ReadOutcomes(dir, file) == IF <<dir, file>> \in DOMAIN files THEN BOOLEAN ELSE {FALSE}

\* nothing is copied down
Inherit_Skip(p, found, file, next) ==
    /\ Goto(p, next)
    /\ UNCHANGED <<ret, log, fsVars>>

\* the root's value of file is copied into path unless the spec gave one
Inherit(p, found, file, next) ==
    IF ~found
    THEN \E readOk \in ReadOutcomes(loc[p].rootPath, file) :
           LET read == Entry("ReadFile", Join(<<loc[p].rootPath, file>>), "", "", readOk)
           IN  IF readOk
               THEN \E ok \in WriteOutcomes(loc[p].path) :
                      LET value == files[<<loc[p].rootPath, file>>]
                      IN  /\ Log(p, <<read, Entry("writeFile", loc[p].path, file, value, ok)>>)
                          /\ files' = IF ok THEN Put(files, <<loc[p].path, file>>, value)
                                      ELSE files
                          /\ UNCHANGED <<dirs, members>>
                          /\ IF WriteFailed(ok)
                             THEN ReturnError(p, "writeFile")
                             ELSE Goto(p, next) /\ UNCHANGED ret
               ELSE /\ Log(p, <<read>>)
                    /\ ReturnError(p, "ReadFile")
                    /\ UNCHANGED fsVars
    ELSE /\ Goto(p, next)
         /\ UNCHANGED <<ret, log, fsVars>>

\* lines 343-352: if !foundCpus
InheritCpus(p) ==
    /\ At(p, "InheritCpus")
    /\ Inherit(p, loc[p].foundCpus, "cpuset.cpus", "InheritMems")
    /\ UNCHANGED <<loc, units>>
    /\ UNCHANGED <<connVars, envVars>>

\* lines 355-364: if !foundMems
InheritMems(p) ==
    /\ At(p, "InheritMems")
    /\ Inherit(p, loc[p].foundMems, "cpuset.mems", "CpusetProcs")
    /\ UNCHANGED <<loc, units>>
    /\ UNCHANGED <<connVars, envVars>>

\* lines 366-368: writeFile(path, "cgroup.procs", strconv.Itoa(pid))
CpusetProcs(p) ==
    /\ At(p, "CpusetProcs")
    /\ \E ok \in WriteOutcomes(loc[p].path) :
         /\ writeFile(p, loc[p].path, "cgroup.procs", FormatInt(Pid(p)), ok)
         /\ IF WriteFailed(ok)
            THEN ReturnError(p, "writeFile")
            ELSE Goto(p, "Return") /\ UNCHANGED ret
    /\ UNCHANGED <<loc, units>>
    /\ UNCHANGED <<connVars, envVars>>

\* line 371: return &res, nil
Return(p) ==
    /\ At(p, "Return")
    /\ ret' = [ret EXCEPT ![p] = [returned |-> TRUE, handle |-> TRUE,
                                  cleanupDirs |-> loc[p].cleanupDirs, err |-> ""]]
    /\ Goto(p, "Done")
    /\ UNCHANGED <<loc, log, units>>
    /\ UNCHANGED <<connVars, fsVars, envVars>>

(***************************************************************************)
(* systemdCgroup.Cleanup (lines 374-382)                                   *)
(***************************************************************************)
\* a cgroup directory with a process in it cannot be removed
Busy(d, mems) == \E m \in mems : m[1] = d

\* os.RemoveAll(path): what is left of ds; a directory stays while it or a
\* directory below it is busy
RemoveAll(path, ds, mems) ==
    {d \in ds : ~IsUnder(d, path)
                \/ \E b \in ds : IsUnder(b, d) /\ Busy(b, mems)}

\* the error os.RemoveAll(path) returns
RemoveAllErr(path, ds, mems) ==
    IF \E b \in ds : IsUnder(b, path) /\ Busy(b, mems) THEN "EBUSY" ELSE "nil"

\* for _, path := range c.cleanupDirs { os.RemoveAll(path) }
RECURSIVE RemoveEach(_, _, _)
RemoveEach(paths, ds, mems) ==
    IF paths = <<>> THEN ds
    ELSE RemoveEach(Tail(paths), RemoveAll(Head(paths), ds, mems), mems)

\* the removal errors one Cleanup call meets
RECURSIVE RemoveErrs(_, _, _)
RemoveErrs(paths, ds, mems) ==
    IF paths = <<>> THEN {}
    ELSE ({RemoveAllErr(Head(paths), ds, mems)} \ {"nil"})
         \cup RemoveErrs(Tail(paths), RemoveAll(Head(paths), ds, mems), mems)

\* a Cleanup that hands a removal error to its caller
CleanupResult_Propagated(errs) == IF errs = {} THEN "nil" ELSE CHOOSE e \in errs : TRUE

\* line 381: return nil, whatever the removals returned
CleanupResult(errs) == "nil"

Cleanup(p) ==
    /\ At(p, "Done")
    /\ ret[p].handle
    /\ cleanups[p] < MaxCleanups
    /\ dirs' = RemoveEach(ret[p].cleanupDirs, dirs, members)
    /\ files' = [k \in {x \in DOMAIN files : x[1] \in dirs'} |-> files[k]]
    /\ cleanups' = [cleanups EXCEPT ![p] = @ + 1]
    /\ cleanupErr' = [cleanupErr EXCEPT
           ![p] = CleanupResult(RemoveErrs(ret[p].cleanupDirs, dirs, members))]
    /\ UNCHANGED <<pc, loc, ret, log, units, members>>
    /\ UNCHANGED <<connVars, active, c, sdBooted, made, exited>>

(***************************************************************************)
(* The target process                                                      *)
(***************************************************************************)
\* the process that caller p confined exits and leaves its cgroups
ProcExit(p) ==
    /\ At(p, "Done")
    /\ ret[p].handle
    /\ p \notin exited
    /\ exited' = exited \cup {p}
    /\ members' = {m \in members : m[2] # FormatInt(Pid(p))}
    /\ UNCHANGED <<pc, loc, ret, log, units, dirs, files>>
    /\ UNCHANGED <<connVars, active, c, sdBooted, made, cleanups, cleanupErr>>

(***************************************************************************)
(* Specifications                                                          *)
(***************************************************************************)
Next ==
    \E p \in Procs :
        \/ Apply(p) \/ ApplyDispatch(p)
        \/ SdBooted(p) \/ Lock(p) \/ CheckConn(p) \/ NewConn(p)
        \/ Assume(p) \/ Probe(p) \/ ReadFlag(p) \/ Unlock(p)
        \/ Prepare(p) \/ SetUnitProperties(p) \/ StartTransientUnit(p)
        \/ GetUnitTypeProperties(p)
        \/ DevMount(p) \/ DevInit(p) \/ DevMkdir(p) \/ DevProcs(p) \/ DevDeny(p)
        \/ DevAllow(p)
        \/ CpuMount(p) \/ CpuWrite(p) \/ MemMount(p) \/ MemWrite(p)
        \/ CpusetMount(p) \/ CpusetInit(p) \/ CpusetMkdir(p) \/ CpusetWrite(p)
        \/ InheritCpus(p) \/ InheritMems(p) \/ CpusetProcs(p) \/ Return(p)
        \/ Cleanup(p) \/ ProcExit(p)

\* one caller, every spec
Spec == Init /\ [][Next]_vars

\* two callers side by side
SpecConc == InitConc /\ [][Next]_vars

(***************************************************************************)
(* What a caller's log says                                                *)
(***************************************************************************)
\* the invalid call useSystemd probes the manager with
IsProbe(e) == e.op = "StartTransientUnit" /\ e.b = "invalid"

\* a call that creates or updates a unit
IsUnitCall(e) ==
    \/ e.op = "SetUnitProperties"
    \/ e.op = "StartTransientUnit" /\ ~IsProbe(e)

\* a call systemdApply makes to the manager
IsApplyCall(e) == IsUnitCall(e) \/ e.op = "GetUnitTypeProperties"

IsWrite(e) == e.op = "writeFile"

\* a call made by useSystemd, before systemdApply is entered
IsSetup(e) == IsProbe(e) \/ e.op = "systemd1.New"

Writes(p) == SelectSeq(log[p], IsWrite)

IsDeviceRule(e) == IsWrite(e) /\ e.b \in {"devices.deny", "devices.allow"}

\* s is an initial part of t
IsPrefix(s, t) == Len(s) <= Len(t) /\ s = SubSeq(t, 1, Len(s))

Succeeded(p) == ret[p].returned /\ ret[p].handle /\ ret[p].err = ""

(***************************************************************************)
(* C1                                                                      *)
(***************************************************************************)
\* C1: when the unit call of an apply fails (StartTransientUnit, or
\* SetUnitProperties in foreground mode), the apply has returned an error
\* and no handle, the failed call is the last call of the run (no property
\* query, no MkdirAll, no writeFile follows or precedes it), and the target
\* process is in no cgroup.procs.
C1_UnitCallFailureIsFatal ==
    \A p \in Procs : \A i \in 1..Len(log[p]) :
        (IsUnitCall(log[p][i]) /\ ~log[p][i].ok) =>
            /\ i = Len(log[p])
            /\ pc[p] = "Done"
            /\ ret[p].returned /\ ~ret[p].handle /\ ret[p].err # ""
            /\ \A j \in 1..Len(log[p]) :
                   log[p][j].op \notin {"GetUnitTypeProperties", "MkdirAll", "writeFile",
                                        "FindCgroupMountpoint", "GetInitCgroupDir"}
            /\ made[p] = {}
            /\ \A m \in members : m[2] # FormatInt(Pid(p))

\* C1 witness: a unit call has failed and the apply is over
C1_Witness ==
    \E p \in Procs :
        /\ pc[p] = "Done"
        /\ Len(log[p]) > 0
        /\ IsUnitCall(log[p][Len(log[p])])
        /\ ~log[p][Len(log[p])].ok

(***************************************************************************)
(* C2                                                                      *)
(***************************************************************************)
\* the calls an apply of spec cg has to make, in order, as <<op, file>>
PlannedSteps(cg) ==
    LET fg == cg.Foreground
        step(op) == <<op, "">>
        write(file) == <<"writeFile", file>>
        anyProperty ==
            \/ cg.MemoryAccounting \/ cg.CpuAccounting
            \/ cg.Memory # I64(0) \/ cg.CpuShares # 0 \/ cg.CpuQuota # 0
            \/ (cg.MemorySwap >= 0 /\ (cg.Memory # I64(0) \/ cg.MemorySwap > 0))
        swap == cg.MemorySwap >= 0 /\ (cg.Memory # I64(0) \/ cg.MemorySwap > 0)
        allows == IF fg THEN 14 ELSE 2
    IN  (IF fg THEN <<step("GetThisCgroupDir")>> ELSE <<>>)
        \o (IF ~fg THEN <<step("StartTransientUnit")>>
            ELSE IF anyProperty THEN <<step("SetUnitProperties")>> ELSE <<>>)
        \o <<step("GetUnitTypeProperties")>>
        \o (IF ~cg.DeviceAccess
            THEN <<step("FindCgroupMountpoint")>>
                 \o (IF fg THEN <<step("GetInitCgroupDir"), step("MkdirAll"),
                                  write("cgroup.procs"), write("devices.deny")>>
                     ELSE <<>>)
                 \o [k \in 1..allows |-> write("devices.allow")]
            ELSE <<>>)
        \o (IF cg.CpuQuota # 0
            THEN <<step("FindCgroupMountpoint"), write("cpu.cfs_quota_us")>> ELSE <<>>)
        \o (IF swap
            THEN <<step("FindCgroupMountpoint"), write("memory.memsw.limit_in_bytes")>>
            ELSE <<>>)
        \o (IF cg.CpusetCpus # "" \/ cg.CpusetMems # ""
            THEN <<step("FindCgroupMountpoint"), step("GetInitCgroupDir"),
                   step("MkdirAll")>>
                 \o (IF cg.CpusetCpus # "" THEN <<write("cpuset.cpus")>> ELSE <<>>)
                 \o (IF cg.CpusetMems # "" THEN <<write("cpuset.mems")>> ELSE <<>>)
                 \o (IF cg.CpusetCpus = ""
                     THEN <<step("ReadFile"), write("cpuset.cpus")>> ELSE <<>>)
                 \o (IF cg.CpusetMems = ""
                     THEN <<step("ReadFile"), write("cpuset.mems")>> ELSE <<>>)
                 \o <<write("cgroup.procs")>>
            ELSE <<>>)

\* the calls systemdApply made for caller p, as <<op, file>>
PerformedSteps(p) ==
    LET applied == SelectSeq(log[p], LAMBDA e : ~IsSetup(e))
    IN  [k \in 1..Len(applied) |->
            <<applied[k].op, IF IsWrite(applied[k]) THEN applied[k].b ELSE "">>]

ForegroundRuleOrder ==
    <<<<"devices.deny", "a">>,
      <<"devices.allow", "c *:* m">>, <<"devices.allow", "b *:* m">>,
      <<"devices.allow", "c 1:3 rwm">>, <<"devices.allow", "c 1:5 rwm">>,
      <<"devices.allow", "c 1:7 rwm">>, <<"devices.allow", "c 5:1 rwm">>,
      <<"devices.allow", "c 5:0 rwm">>, <<"devices.allow", "c 4:0 rwm">>,
      <<"devices.allow", "c 4:1 rwm">>, <<"devices.allow", "c 5:2 rwm">>,
      <<"devices.allow", "c 1:9 rwm">>, <<"devices.allow", "c 1:8 rwm">>,
      <<"devices.allow", "c 136:* rwm">>, <<"devices.allow", "c 10:200 rwm">>>>

\* the device rules caller p has written, as <<file, value>>
DeviceRules(p) ==
    LET rules == SelectSeq(log[p], IsDeviceRule)
    IN  [k \in 1..Len(rules) |-> <<rules[k].b, rules[k].v>>]

\* C3: in a foreground apply without DeviceAccess the device rules are
\* written in one order: deny-all first, the foreground allow rules from
\* the two mknod wildcards on, the pts range and the tunnel device last;
\* a successful apply has written all of them.
C3_ForegroundDeviceOrder ==
    \A p \in Procs :
        (c[p].Foreground /\ ~c[p].DeviceAccess) =>
            /\ IsPrefix(DeviceRules(p), ForegroundRuleOrder)
            /\ Succeeded(p) => DeviceRules(p) = ForegroundRuleOrder

\* C3 witness: a foreground apply has written every device rule
C3_Witness ==
    \E p \in Procs :
        /\ c[p].Foreground /\ ~c[p].DeviceAccess
        /\ Len(DeviceRules(p)) = 15
        /\ DeviceRules(p)[15] = <<"devices.allow", "c 10:200 rwm">>

(***************************************************************************)
(* C4                                                                      *)
(***************************************************************************)
\* the devices directory a foreground apply makes for itself
OwnDevicesDir(cg) ==
    Join(<<FindCgroupMountpoint("devices"), GetInitCgroupDir("devices"),
           cg.Parent, cg.Name>>)

\* the flat cpuset directory an apply makes for itself
OwnCpusetDir(cg) ==
    Join(<<FindCgroupMountpoint("cpuset"), GetInitCgroupDir("cpuset"),
           cg.Parent \o "-" \o cg.Name>>)

\* C4: every devices.deny and devices.allow write of a foreground apply,
\* and its devices membership write, goes into the directory
\* <devices-mount>/<init-dir>/<Parent>/<Name> the apply made, never into
\* the cgroup of the unit the caller lives in or any other directory.
C4_ForegroundWritesOwnDevicesDir ==
    \A p \in Procs : \A i \in 1..Len(log[p]) :
        LET e == log[p][i]
        IN  (/\ c[p].Foreground
             /\ IsWrite(e)
             /\ \/ IsDeviceRule(e)
                \/ e.b = "cgroup.procs" /\ e.a # OwnCpusetDir(c[p]))
            => e.a = OwnDevicesDir(c[p])

(***************************************************************************)
(* C5                                                                      *)
(***************************************************************************)
\* the directories the claim says an apply of spec cg owns
ExpectedOwned(cg) ==
    (IF cg.CpusetCpus # "" \/ cg.CpusetMems # "" THEN {OwnCpusetDir(cg)} ELSE {})
    \cup (IF cg.Foreground /\ ~cg.DeviceAccess THEN {OwnDevicesDir(cg)} ELSE {})

\* the paths caller p passed to os.MkdirAll
MkdirTargets(p) ==
    {log[p][i].a : i \in {j \in 1..Len(log[p]) : log[p][j].op = "MkdirAll"}}

\* the directories the manager made for its units
ManagerDirs == UNION {UnitDirs(units[u]) : u \in DOMAIN units}

\* C5 as claimed: the handle of a successful apply owns exactly the
\* directories that apply created, which are the flat cpuset directory
\* (iff a cpuset list is given) and the devices directory (iff foreground
\* without DeviceAccess).
C5_OwnsExactlyWhatItCreated ==
    \A p \in Procs :
        Succeeded(p) =>
            /\ Range(ret[p].cleanupDirs) = ExpectedOwned(c[p])
            /\ Range(ret[p].cleanupDirs) = made[p]

\* C5 as amended: the handle of a successful apply owns exactly the paths
\* that apply passed to MkdirAll, each once: the flat cpuset directory iff
\* a cpuset list is given and the devices directory iff foreground without
\* DeviceAccess; none of them is a directory of the manager.  What MkdirAll
\* creates above them (<devices-mount>/<init-dir>/<Parent>) is not owned.
C5_OwnsExactlyItsMkdirTargets ==
    \A p \in Procs :
        Succeeded(p) =>
            /\ Range(ret[p].cleanupDirs) = ExpectedOwned(c[p])
            /\ Range(ret[p].cleanupDirs) = MkdirTargets(p)
            /\ Len(ret[p].cleanupDirs) = Cardinality(ExpectedOwned(c[p]))
            /\ Range(ret[p].cleanupDirs) \cap ManagerDirs = {}
            /\ Range(ret[p].cleanupDirs) \subseteq made[p]
            /\ made[p] \ Range(ret[p].cleanupDirs) \subseteq
                   {Join(<<FindCgroupMountpoint("devices"),
                           GetInitCgroupDir("devices"), c[p].Parent>>)}

\* C5 witness: a successful foreground apply owns both directories and has
\* created a third one above the devices directory
C5_Witness ==
    \E p \in Procs :
        /\ Succeeded(p)
        /\ Len(ret[p].cleanupDirs) = 2
        /\ Cardinality(made[p]) = 3

(***************************************************************************)
(* C6                                                                      *)
(***************************************************************************)
\* C6: every Cleanup call returns nil, whether its owned paths are there,
\* gone, or busy so that the removal fails; a Cleanup in the state the call
\* leaves removes nothing more; and a repeated Cleanup, made while no
\* process has left its cgroup since, leaves directories and files as
\* they are.
C6_CleanupIdempotent ==
    [][\A p \in Procs :
         cleanups'[p] # cleanups[p] =>
             /\ cleanupErr'[p] = "nil"
             /\ RemoveEach(ret[p].cleanupDirs, dirs', members') = dirs'
             /\ (cleanups[p] > 0 /\ exited = {}) => (dirs' = dirs /\ files' = files)]_vars

\* C6 witness: a handle with owned paths was cleaned up twice, the second
\* time with every owned path already gone
C6_Witness ==
    \E p \in Procs :
        /\ cleanups[p] = 2
        /\ ret[p].cleanupDirs # <<>>
        /\ Range(ret[p].cleanupDirs) \cap dirs = {}

(***************************************************************************)
(* C7                                                                      *)
(***************************************************************************)
\* scenario A: every field zero but Name, Parent, Memory and CpuShares
ScenarioA ==
    [Name |-> "c1", Parent |-> "docker", Slice |-> "",
     Memory |-> I64(100000000), MemorySwap |-> 0, CpuShares |-> 512, CpuQuota |-> 0,
     CpusetCpus |-> "", CpusetMems |-> "",
     DeviceAccess |-> FALSE, MemoryAccounting |-> FALSE,
     CpuAccounting |-> FALSE, Foreground |-> FALSE]

\* the unit calls caller p made
UnitCalls(p) == SelectSeq(log[p], IsUnitCall)

BeforeDispatch ==
    {"Start", "SdBooted", "Lock", "CheckConn", "NewConn", "Assume", "Probe",
     "ReadFlag", "Unlock", "Dispatch"}

\* the manager is not usable for caller p: the system was not booted under
\* it, p's connection attempt failed, or it answered p's probe with
\* UnknownMethod
ProbeFalse(p) ==
    \/ ~sdBooted
    \/ \E i \in 1..Len(log[p]) :
           \/ log[p][i].op = "systemd1.New" /\ ~log[p][i].ok
           \/ IsProbe(log[p][i]) /\ log[p][i].v = "UnknownMethod"

ProbeCount(p) == Len(SelectSeq(log[p], IsProbe))

RECURSIVE Sum(_, _)
Sum(f(_), S) ==
    IF S = {} THEN 0
    ELSE LET x == CHOOSE y \in S : TRUE IN f(x) + Sum(f, S \ {x})

\* caller p is back from useSystemd with its answer in useRet
BackFromUseSystemd(p) == pc[p] \notin (BeforeDispatch \ {"Dispatch"})

\* caller p found the connection missing and failed to open one
FailedToConnect(p) ==
    \E i \in 1..Len(log[p]) : log[p][i].op = "systemd1.New" /\ ~log[p][i].ok

\* C9: the capability probe is performed at most once per process: under
\* every interleaving of concurrent useSystemd callers at most one
\* connection is ever opened and at most one probe call is issued; once the
\* connection is established and the lock released the invalid
\* StartTransientUnit call has been issued exactly once in total; and every
\* caller that comes back while the system is booted under the manager,
\* without a failed connection attempt of its own, comes back with the one
\* cached flag, having probed only if it opened the connection itself.
C9_ProbeAtMostOnce ==
    /\ connCount <= 1
    /\ Sum(ProbeCount, Procs) <= 1
    /\ (theConn # 0 /\ connLock = 0) => Sum(ProbeCount, Procs) = 1
    /\ \A p \in Procs :
           (sdBooted /\ BackFromUseSystemd(p) /\ ~FailedToConnect(p)) =>
               /\ theConn # 0
               /\ loc[p].useRet = hasStartTransientUnit
               /\ Sum(ProbeCount, Procs) = 1

\* C9 witness: two callers are back from useSystemd with the same answer;
\* one of them opened the connection and probed, the other called neither
\* systemd1.New nor the manager
C9_Witness ==
    \E p, q \in Procs :
        /\ p # q
        /\ BackFromUseSystemd(p) /\ BackFromUseSystemd(q)
        /\ ProbeCount(p) = 1
        /\ \A i \in 1..Len(log[q]) : ~IsSetup(log[q][i])
        /\ loc[p].useRet = loc[q].useRet
        /\ theConn # 0

(***************************************************************************)
(* C10                                                                     *)
(***************************************************************************)
\* the units caller p's apply named in a call to the manager
UnitsNamed(p) ==
    {log[p][i].a : i \in {j \in 1..Len(log[p]) : IsApplyCall(log[p][j])}}

\* the directories caller p's apply created, wrote a file into, or owns
DirsTouched(p) ==
    made[p]
    \cup MkdirTargets(p)
    \cup {log[p][i].a : i \in {j \in 1..Len(log[p]) : IsWrite(log[p][j])}}
    \cup Range(ret[p].cleanupDirs)

Independent(p, q) ==
    /\ UnitsNamed(p) \cap UnitsNamed(q) = {}
    /\ DirsTouched(p) \cap DirsTouched(q) = {}

\* C10 as stated: two applies running side by side for different target
\* processes and differently named specs, foreground or not, name no unit
\* in common and create, write and own no directory in common.
C10_ConcurrentAppliesIndependent ==
    \A p, q \in Procs :
        (p # q /\ Pid(p) # Pid(q) /\ c[p].Name # c[q].Name) => Independent(p, q)

\* C10, amended: two applies running side by side for different target
\* processes, neither in foreground mode, whose specs differ in
\* <Parent>-<Name>, name no unit in common and create, write and own no
\* directory in common.
C10_NonForegroundAppliesIndependent ==
    \A p, q \in Procs :
        (/\ p # q
         /\ Pid(p) # Pid(q)
         /\ ~c[p].Foreground /\ ~c[q].Foreground
         /\ c[p].Parent \o "-" \o c[p].Name # c[q].Parent \o "-" \o c[q].Name)
            => Independent(p, q)

\* C10 witness: two differently named applies, neither in foreground mode,
\* both returned a handle that owns a directory, each after a unit call and
\* writes of its own
C10_Witness ==
    \E p, q \in Procs :
        /\ p # q
        /\ ~c[p].Foreground /\ ~c[q].Foreground
        /\ c[p].Name # c[q].Name
        /\ Succeeded(p) /\ Succeeded(q)
        /\ UnitsNamed(p) # {} /\ UnitsNamed(q) # {}
        /\ Len(ret[p].cleanupDirs) > 0 /\ Len(ret[q].cleanupDirs) > 0
        /\ Cardinality(DirsTouched(p)) > 1 /\ Cardinality(DirsTouched(q)) > 1

(***************************************************************************)
(* C11                                                                     *)
(***************************************************************************)
\* a write of the swap limit
IsSwapWrite(e) == IsWrite(e) /\ e.b = "memory.memsw.limit_in_bytes"

Positive(v) == ~v.neg /\ v.mag # <<0, 0, 0>>

\* C11: whenever an apply writes memory.memsw.limit_in_bytes, the value is
\* the decimal of 2*M when MemorySwap is 0 and Memory is M > 0, and the
\* decimal of MemorySwap when MemorySwap > 0.
C11_SwapValue ==
    \A p \in Procs : \A i \in 1..Len(log[p]) :
        IsSwapWrite(log[p][i]) =>
            /\ (c[p].MemorySwap = 0 /\ Positive(c[p].Memory)) =>
                   log[p][i].v = FormatMag(MagDouble(c[p].Memory.mag))
            /\ c[p].MemorySwap > 0 => log[p][i].v = FormatInt(c[p].MemorySwap)

(***************************************************************************)
(* C12                                                                     *)
(***************************************************************************)
\* how many times caller p wrote the swap limit
SwapWrites(p) == Len(SelectSeq(log[p], IsSwapWrite))

\* the spec asks for a swap limit
SwapPlanned(cg) ==
    cg.MemorySwap >= 0 /\ (cg.Memory # I64(0) \/ cg.MemorySwap > 0)

\* C12: with MemorySwap -1 no apply writes memory.memsw.limit_in_bytes,
\* whatever Memory is; in general an apply writes the file only if
\* MemorySwap >= 0 and (Memory != 0 or MemorySwap > 0), and an apply that
\* returns its handle has written it, once, if that condition holds.
C12_SwapWrittenIffPlanned ==
    \A p \in Procs :
        /\ c[p].MemorySwap = -1 => SwapWrites(p) = 0
        /\ SwapWrites(p) > 0 => SwapPlanned(c[p])
        /\ Succeeded(p) => (SwapWrites(p) = IF SwapPlanned(c[p]) THEN 1 ELSE 0)

\* C12 witness: an apply with MemorySwap -1 and a memory limit returned its
\* handle
C12_Witness ==
    \E p \in Procs :
        c[p].MemorySwap = -1 /\ c[p].Memory # I64(0) /\ Succeeded(p)

(***************************************************************************)
(* C13                                                                     *)
(***************************************************************************)
\* the device nodes the spec names as default-safe
SafeNodes ==
    {"/dev/null", "/dev/zero", "/dev/full", "/dev/random", "/dev/urandom",
     "/dev/tty", "/dev/console", "/dev/tty0", "/dev/tty1", "/dev/pts/ptmx"}

\* the rules caller p wrote into devices.allow, in order
AllowWrites(p) ==
    LET rules == SelectSeq(log[p], LAMBDA e : IsWrite(e) /\ e.b = "devices.allow")
    IN  [k \in 1..Len(rules) |-> rules[k].v]

\* every unit call of p carries a DeviceAllow property of n entries, all of
\* them default-safe nodes with rwm, and p wrote by hand, on success, exactly
\* the pts range and the tunnel device
DeviceLists(p, n) ==
    /\ \A i \in 1..Len(log[p]) :
           IsUnitCall(log[p][i]) =>
               LET allow == PropValue(log[p][i].props, "DeviceAllow", <<>>)
               IN  /\ Len(allow) = n
                   /\ Cardinality(Range(allow)) = n
                   /\ Range(allow) \subseteq {<<node, "rwm">> : node \in SafeNodes}
    /\ IsPrefix(AllowWrites(p), <<"c 136:* rwm", "c 10:200 rwm">>)
    /\ Succeeded(p) => AllowWrites(p) = <<"c 136:* rwm", "c 10:200 rwm">>
    /\ \A i \in 1..Len(log[p]) : ~(IsWrite(log[p][i]) /\ log[p][i].b = "devices.deny")

\* C13 as stated: with DeviceAccess false and Foreground false the
\* DeviceAllow unit property holds exactly nine default-safe entries, and the
\* manual device writes are exactly the pts range and the tunnel device.
C13_NineSafeDevices ==
    \A p \in Procs :
        (~c[p].DeviceAccess /\ ~c[p].Foreground) => DeviceLists(p, 9)

\* C13, amended: with DeviceAccess false and Foreground false the
\* DeviceAllow unit property holds exactly the ten default-safe entries
\* (null, zero, full, random, urandom, tty, console, tty0, tty1 and the pts
\* multiplexer, each rwm), and the manual device writes are exactly the pts
\* range "c 136:* rwm" and the tunnel device "c 10:200 rwm".
C13_TenSafeDevices ==
    \A p \in Procs :
        (~c[p].DeviceAccess /\ ~c[p].Foreground) => DeviceLists(p, 10)

\* C13 witness: such an apply made its unit call, wrote both rules and
\* returned its handle
C13_Witness ==
    \E p \in Procs :
        /\ ~c[p].DeviceAccess /\ ~c[p].Foreground
        /\ Succeeded(p)
        /\ Len(UnitCalls(p)) = 1
        /\ Len(AllowWrites(p)) = 2

(***************************************************************************)
(* C14                                                                     *)
(***************************************************************************)
\* d is the devices hierarchy or a directory in it
InDevices(d) == IsUnder(d, FindCgroupMountpoint("devices"))

\* C14: with DeviceAccess true, foreground or not, no unit call carries a
\* DevicePolicy or DeviceAllow property, the apply writes no devices.allow
\* and no devices.deny, does not even resolve the devices hierarchy, and
\* creates, writes and owns no directory in it.
C14_DeviceAccessLeavesDevicesAlone ==
    \A p \in Procs :
        c[p].DeviceAccess =>
            /\ \A i \in 1..Len(log[p]) :
                   LET e == log[p][i]
                   IN  /\ IsUnitCall(e) =>
                              PropNames(e.props) \cap {"DevicePolicy", "DeviceAllow"} = {}
                       /\ ~IsDeviceRule(e)
                       /\ e.op \in {"FindCgroupMountpoint", "GetInitCgroupDir"} =>
                              e.a # "devices"
                       /\ e.op \in {"writeFile", "MkdirAll"} => ~InDevices(e.a)
            /\ \A d \in made[p] \cup Range(ret[p].cleanupDirs) : ~InDevices(d)

\* C14 witness: a foreground apply with DeviceAccess true made its
\* SetUnitProperties call, made its cpuset directory and returned its handle
C14_Witness ==
    \E p \in Procs :
        /\ c[p].DeviceAccess
        /\ c[p].Foreground
        /\ Succeeded(p)
        /\ Len(UnitCalls(p)) = 1
        /\ Len(ret[p].cleanupDirs) = 1

(***************************************************************************)
(* C15                                                                     *)
(***************************************************************************)
\* caller p's cpuset directory exists and its file holds what the root
\* cpuset directory's file holds
Inherited(p, file) ==
    /\ OwnCpusetDir(c[p]) \in dirs
    /\ <<RootCpuset, file>> \in DOMAIN files
    /\ <<OwnCpusetDir(c[p]), file>> \in DOMAIN files
    /\ files[<<OwnCpusetDir(c[p]), file>>] = files[<<RootCpuset, file>>]

\* the apply of caller p has returned its handle and nothing was cleaned up
Applied(p) == Succeeded(p) /\ cleanups[p] = 0

\* C15 as stated: after every apply with an empty CpusetCpus the cpuset
\* subdirectory exists and its cpuset.cpus holds the root's value, and the
\* same for an empty CpusetMems and cpuset.mems.
C15_AlwaysInherits ==
    \A p \in Procs :
        Applied(p) =>
            /\ c[p].CpusetCpus = "" => Inherited(p, "cpuset.cpus")
            /\ c[p].CpusetMems = "" => Inherited(p, "cpuset.mems")

\* C15, amended: after every apply with an empty CpusetCpus and a non-empty
\* CpusetMems the cpuset subdirectory exists and its cpuset.cpus holds the
\* root's value; symmetrically for an empty CpusetMems with a non-empty
\* CpusetCpus; with both empty the apply makes no cpuset directory, reads
\* nothing from the root and writes no cpuset file.
C15_InheritsTheMissingList ==
    \A p \in Procs :
        /\ Applied(p) =>
               /\ (c[p].CpusetCpus = "" /\ c[p].CpusetMems # "") =>
                      /\ Inherited(p, "cpuset.cpus")
                      /\ files[<<OwnCpusetDir(c[p]), "cpuset.mems">>] = c[p].CpusetMems
               /\ (c[p].CpusetMems = "" /\ c[p].CpusetCpus # "") =>
                      /\ Inherited(p, "cpuset.mems")
                      /\ files[<<OwnCpusetDir(c[p]), "cpuset.cpus">>] = c[p].CpusetCpus
        /\ (c[p].CpusetCpus = "" /\ c[p].CpusetMems = "") =>
               /\ OwnCpusetDir(c[p]) \notin dirs
               /\ \A i \in 1..Len(log[p]) :
                      /\ log[p][i].op # "ReadFile"
                      /\ IsWrite(log[p][i]) =>
                             log[p][i].b \notin {"cpuset.cpus", "cpuset.mems"}

\* C15 witness: an apply with an empty CpusetCpus and CpusetMems "0" returned
\* its handle and its cpuset.cpus holds "0-3", the root's value
C15_Witness ==
    \E p \in Procs :
        /\ Applied(p)
        /\ c[p].CpusetCpus = "" /\ c[p].CpusetMems = "0"
        /\ Inherited(p, "cpuset.cpus")
        /\ files[<<OwnCpusetDir(c[p]), "cpuset.cpus">>] = "0-3"

(***************************************************************************)
(* C16                                                                     *)
(***************************************************************************)
\* the apply of caller p returned an error
Failed(p) == ret[p].returned /\ ret[p].err # ""

\* C16: when a step fails after the apply has created a directory (the
\* foreground devices directory or the cpuset directory), the apply returns
\* an error and no handle, so nothing can clean up, and every directory it
\* created, like every directory that was there before, still exists.
C16_FailureOrphansDirectories ==
    \A p \in Procs :
        Failed(p) =>
            /\ ~ret[p].handle
            /\ ret[p].cleanupDirs = <<>>
            /\ cleanups[p] = 0
            /\ made[p] \subseteq dirs
            /\ InitDirs \subseteq dirs

\* C16 witness: a foreground apply created its devices directory and its
\* cpuset directory and then failed on a write or on reading the root cpuset
C16_Witness ==
    \E p \in Procs :
        /\ Failed(p)
        /\ ret[p].err \in {"writeFile", "ReadFile"}
        /\ {OwnDevicesDir(c[p]), OwnCpusetDir(c[p])} \subseteq made[p]
        /\ {OwnDevicesDir(c[p]), OwnCpusetDir(c[p])} \subseteq dirs

(***************************************************************************)
(* C17                                                                     *)
(***************************************************************************)
IsQuery(e) == e.op = "GetUnitTypeProperties"

\* how many times caller p asked the manager for the unit's cgroup
QueryCount(p) == Len(SelectSeq(log[p], IsQuery))

\* caller p has left the unit step of systemdApply behind without an error
PassedUnitStep(p) ==
    /\ pc[p] \notin BeforeDispatch \cup {"systemdApply", "UnitCall", "GetProps"}
    /\ pc[p] = "Done" =>
           ret[p].err \notin {"systemd not available", "GetThisCgroupDir",
                              "SetUnitProperties", "StartTransientUnit"}

\* C17: within one apply every unit call (create or update) has completed
\* successfully before the cgroup-path query is issued, the query has
\* succeeded before any directory is created and any control file written,
\* and the query is issued, once, in every apply that passes the unit step,
\* whether or not the spec needs a manual write.
C17_StepOrder ==
    \A p \in Procs :
        LET queries == {i \in 1..Len(log[p]) : IsQuery(log[p][i])}
        IN  /\ \A i \in queries : \A j \in 1..Len(log[p]) :
                   /\ IsUnitCall(log[p][j]) => (j < i /\ log[p][j].ok)
                   /\ log[p][j].op \in {"MkdirAll", "writeFile"} =>
                          (i < j /\ log[p][i].ok)
            /\ \A j \in 1..Len(log[p]) :
                   log[p][j].op \in {"MkdirAll", "writeFile"} => queries # {}
            /\ Cardinality(queries) <= 1
            /\ PassedUnitStep(p) => Cardinality(queries) = 1

\* C17 witness: an apply whose spec needs no manual write at all made its
\* unit call, then the query, and returned its handle
C17_Witness ==
    \E p \in Procs :
        /\ Succeeded(p)
        /\ Len(UnitCalls(p)) = 1
        /\ QueryCount(p) = 1
        /\ \A j \in 1..Len(log[p]) : log[p][j].op \notin {"MkdirAll", "writeFile"}

(***************************************************************************)
(* C18                                                                     *)
(***************************************************************************)
\* caller p has left the unit step of systemdApply behind, with or without
\* an error of the unit call
ReachedUnitStep(p) ==
    /\ pc[p] \notin BeforeDispatch \cup {"systemdApply", "UnitCall"}
    /\ pc[p] = "Done" =>
           ret[p].err \notin {"systemd not available", "GetThisCgroupDir"}

\* a foreground apply of cg has a unit property to set
ForegroundPlanNonEmpty(cg) ==
    \/ cg.MemoryAccounting \/ cg.CpuAccounting
    \/ cg.Memory # I64(0) \/ cg.CpuShares # 0
    \/ SwapPlanned(cg) \/ cg.CpuQuota # 0

\* C18: a foreground apply never calls StartTransientUnit for a unit (the
\* probe's invalid call aside); it calls SetUnitProperties, once and on the
\* caller's existing unit, if and only if the planned property list is not
\* empty, and makes no call in the unit step when the list is empty.  An
\* apply that is not in foreground mode never calls SetUnitProperties and
\* calls StartTransientUnit exactly once, with unit name
\* <Parent>-<Name>.scope and mode "replace".
C18_UnitStepByMode ==
    \A p \in Procs :
        LET calls == UnitCalls(p)
        IN  /\ Len(calls) <= 1
            /\ c[p].Foreground =>
                   /\ \A k \in 1..Len(calls) :
                          /\ calls[k].op = "SetUnitProperties"
                          /\ calls[k].a = "session-1.scope"
                          /\ calls[k].a \in DOMAIN units
                          /\ Len(calls[k].props) > 0
                   /\ ReachedUnitStep(p) =>
                          (Len(calls) = 1 <=> ForegroundPlanNonEmpty(c[p]))
                   /\ DOMAIN units = {"session-1.scope"}
            /\ ~c[p].Foreground =>
                   /\ \A k \in 1..Len(calls) :
                          /\ calls[k].op = "StartTransientUnit"
                          /\ calls[k].a = c[p].Parent \o "-" \o c[p].Name \o ".scope"
                          /\ calls[k].b = "replace"
                   /\ ReachedUnitStep(p) => Len(calls) = 1

\* C18 witness: a foreground apply with nothing to set went through the unit
\* step without a call and returned its handle
C18_Witness ==
    \E p \in Procs :
        /\ c[p].Foreground
        /\ ~ForegroundPlanNonEmpty(c[p])
        /\ Succeeded(p)
        /\ Len(UnitCalls(p)) = 0
        /\ QueryCount(p) = 1

(***************************************************************************)
(* C19                                                                     *)
(***************************************************************************)
\* entry e is a write of file into directory d
IsWriteInto(e, d, file) == e.b = file /\ IsWrite(e) /\ e.a = d

\* C19: in the cpuset step the target process id is written to cgroup.procs
\* last: when an apply attempts the membership write, a non-empty
\* cpuset.cpus and a non-empty cpuset.mems have already been written
\* successfully into the same directory (from the spec or copied from the
\* root cpuset directory), nothing is written into it afterwards, and so a
\* process is a member of a cpuset directory only if both files are there.
C19_CpusetMembershipLast ==
    \A p \in Procs :
        LET d == OwnCpusetDir(c[p])
            joins == {j \in 1..Len(log[p]) : IsWriteInto(log[p][j], d, "cgroup.procs")}
        IN  /\ \A j \in joins :
                   /\ log[p][j].v = FormatInt(Pid(p))
                   /\ j = Len(log[p])
                   /\ \A file \in {"cpuset.cpus", "cpuset.mems"} :
                          \E i \in 1..(j - 1) :
                              /\ IsWriteInto(log[p][i], d, file)
                              /\ log[p][i].ok
                              /\ log[p][i].v # ""
            /\ <<d, FormatInt(Pid(p))>> \in members =>
                   \A file \in {"cpuset.cpus", "cpuset.mems"} :
                       /\ <<d, file>> \in DOMAIN files
                       /\ files[<<d, file>>] # ""
            /\ Cardinality(joins) <= 1

\* C19 witness: an apply that inherited one list and took the other from
\* the spec has joined the process to its cpuset directory
C19_Witness ==
    \E p \in Procs :
        /\ c[p].CpusetCpus # "" /\ c[p].CpusetMems = ""
        /\ <<OwnCpusetDir(c[p]), FormatInt(Pid(p))>> \in members
        /\ Succeeded(p)

(***************************************************************************)
(* C20                                                                     *)
(***************************************************************************)
\* before entry j caller p made a successful unit call that set the
\* accounting property name to true
AccountingRequested(p, j, name) ==
    \E i \in 1..(j - 1) :
        /\ IsUnitCall(log[p][i])
        /\ log[p][i].ok
        /\ name \in PropNames(log[p][i].props)
        /\ PropValue(log[p][i].props, name, FALSE) = TRUE

\* C20: the property list of every unit call holds MemoryAccounting, and
\* then as true, if and only if the MemoryAccounting flag is set or the
\* manual swap-limit write is planned, and CPUAccounting if and only if the
\* CpuAccounting flag is set or the manual cpu-quota write is planned; so
\* every write of memory.memsw.limit_in_bytes or cpu.cfs_quota_us comes
\* after a successful unit call that requested that controller's accounting.
C20_AccountingWhenNeeded ==
    \A p \in Procs : \A j \in 1..Len(log[p]) :
        LET e == log[p][j]
        IN  /\ IsUnitCall(e) =>
                   /\ "MemoryAccounting" \in PropNames(e.props)
                          <=> (c[p].MemoryAccounting \/ SwapPlanned(c[p]))
                   /\ "CPUAccounting" \in PropNames(e.props)
                          <=> (c[p].CpuAccounting \/ c[p].CpuQuota # 0)
                   /\ PropValue(e.props, "MemoryAccounting", TRUE) = TRUE
                   /\ PropValue(e.props, "CPUAccounting", TRUE) = TRUE
            /\ IsSwapWrite(e) => AccountingRequested(p, j, "MemoryAccounting")
            /\ (IsWrite(e) /\ e.b = "cpu.cfs_quota_us") =>
                   AccountingRequested(p, j, "CPUAccounting")

\* C20 witness: an apply with both accounting flags off wrote the swap limit
\* and the cpu quota by hand and returned its handle
C20_Witness ==
    \E p \in Procs :
        /\ ~c[p].MemoryAccounting /\ ~c[p].CpuAccounting
        /\ Succeeded(p)
        /\ SwapWrites(p) = 1
        /\ \E j \in 1..Len(log[p]) :
               IsWrite(log[p][j]) /\ log[p][j].b = "cpu.cfs_quota_us" /\ log[p][j].ok

====
